---- MODULE Spec2Model ----
(***************************************************************************)
(* Model of the subscription renewal contract                              *)
(* (contracts/subscription_renewal/src/lib.rs).  Every public entry point  *)
(* of the contract is one action.  An invocation that panics is rolled     *)
(* back by the host: it leaves the storage untouched and only the          *)
(* observation variable `last` records which call was made and how it      *)
(* ended.                                                                  *)
(***************************************************************************)
EXTENDS Integers, Naturals, Sequences, FiniteSets, TLC

\* ---------------------------------------------------------------------
\* Bounds of the model
\* ---------------------------------------------------------------------
MaxLedger == 1
MaxRetriesBound == 1
MaxFailureCount == 2
SecondsPerLedger == 5

\* Largest value of the unsigned machine word.  The contract's heights and
\* counters are u32; the model keeps the wrap-around arithmetic of a fixed
\* width word but scales the width down so that the words stay enumerable.
WordMax == 15

\* ---------------------------------------------------------------------
\* Input domains
\* ---------------------------------------------------------------------
SubIds == {1}
ApprovalIds == {1}
CycleIds == {1, 2}
Owners == {"alice", "bob"}
Admins == {"admin"}
Signers == Owners \cup Admins
Merchants == {"shop"}
SubAmounts == {5}
Frequencies == {30}
SpendingCaps == {10}
MaxSpends == {10}
RenewAmounts == {5, 20}
ExpiryHeights == {0, MaxLedger}
LockTimeouts == {1, WordMax}
Cooldowns == {0, 1, WordMax}
RetryLimits == 0..MaxRetriesBound
Workers == {"w1", "w2"}

\* Option<T>: None is the empty sequence, Some(x) the one-element sequence
None == <<>>
Some(x) == <<x>>
IsSome(o) == o # <<>>
Unwrap(o) == o[1]

VARIABLES
  admin,            \* ContractKey::Admin      : Option<Address>
  paused,           \* ContractKey::Paused     : Option<bool>
  logging_contract, \* ContractKey::LoggingContract : Option<Address>
  subs,             \* sub_id -> Option<SubscriptionData>
  lifecycle,        \* LifecycleKey -> Option<LifecycleTimestamps>
  approvals,        \* ApprovalKey -> Option<RenewalApproval>
  cycles,           \* CycleKey -> Option<u64>
  locks,            \* RenewalLockKey -> Option<RenewalLockData>
  ledger,           \* env.ledger().sequence()
  overflow_checks,  \* whether the build traps on integer overflow
  streak,           \* history: committed failed renewals of a sub_id since it
                    \* was created or last renewed successfully
  last,             \* observation of the last invocation
  workers,          \* submitted renewal workers: their job and how far they are
  logs,             \* logging contract: DataKey::Logs(sub_id) -> Option<Vec<LogEntry>>
  registry,         \* metadata registry: counter, subscriptions, per-user lists
  agents,           \* agent registry: admin, DataKey::Agent entries, their history
  history           \* history of the renewal contract's invocations, per sub_id:
                    \* committed approvals and renewals, who took the lock,
                    \* the cycles renewed; and who made the last invocation

storage == <<admin, paused, logging_contract, subs, lifecycle, approvals, cycles, locks>>
vars == <<admin, paused, logging_contract, subs, lifecycle, approvals, cycles, locks,
          ledger, overflow_checks, streak, last, workers, logs, registry, agents,
          history>>

\* The storage of the other contracts
others == <<logs, registry, agents, history>>
\* What lives outside the renewal contract's storage and observation
peers == <<workers, logs, registry, agents, history>>

\* Bounds and input domains of the other contracts
MaxLogLen == 2
MaxCreates == 3
LogIds == {1, 2}
LogEvents == {"Renewal", "Failure"}
Users == {"alice", "bob"}
\* The first 24 bytes of sha256 of the user's address
UserHash(u) == IF u = "alice" THEN 17 ELSE 42
RegistryIds == (0..(MaxCreates - 1)) \X {UserHash(u) : u \in Users}
AgentAddrs == {"bot1", "bot2"}
ScopeBits == {1, 2, 4}
ScopeMasks == 0..7

\* Nothing is stored in the other contracts
OthersInit ==
  /\ logs = [s \in LogIds |-> None]
  /\ registry = [counter |-> None,
                 subscription |-> [id \in RegistryIds |-> None],
                 user_subscriptions |-> [u \in Users |-> None],
                 returned |-> {}, cancelled |-> {}]
  /\ agents = [admin |-> None,
               agent |-> [a \in AgentAddrs |-> None],
               registered |-> [a \in AgentAddrs |-> FALSE],
               scopes |-> [a \in AgentAddrs |-> None]]
  /\ history = [approved |-> [s \in SubIds |-> 0],
                renewed |-> [s \in SubIds |-> 0],
                holder |-> [s \in SubIds |-> None],
                applied |-> [s \in SubIds |-> {}],
                caller |-> None]

ApprovalKeys == SubIds \X ApprovalIds

\* env.ledger().timestamp(): the close time of the current ledger
LedgerTimestamp == ledger * SecondsPerLedger

\* Variant of IntegrityHash: the spending cap is left out of the digest
IntegrityHashNoCap(merchant, amount, frequency, spending_cap) ==
  <<"sha256", merchant, amount, frequency>>

\* sha256 of the XDR encoding of (merchant, amount, frequency, spending_cap),
\* taken as collision free
IntegrityHash(merchant, amount, frequency, spending_cap) ==
  <<"sha256", merchant, amount, frequency, spending_cap>>

\* u32 addition a + b
AddOverflows(a, b) == a + b > WordMax
WrappingAdd(a, b) == (a + b) % (WordMax + 1)

\* Variant of is_paused: the flag is not read
PauseIgnored == FALSE

\* is_paused
is_paused == IF IsSome(paused) THEN Unwrap(paused) ELSE FALSE

\* Observation of an invocation, held until its result is delivered to the
\* caller: entry point, subscription id (0 if none),
\* result ("ok", "true", "false" or the panic message) and the events it
\* published, each named by its type and the field that tells its kind
Call(op, sub, res, ev) == [op |-> op, sub |-> sub, res |-> res, ev |-> ev]

\* A panicking invocation: the host rolls back every write and event
Abort(op, sub, msg) ==
  /\ last' = Call(op, sub, msg, <<>>)
  /\ UNCHANGED <<storage, ledger, overflow_checks, streak>>

\* The invocation observed in `last` returned (it did not panic)
Returned(call) == call.res \in {"ok", "true", "false"}

\* No invocation is in progress
Idle == Call("idle", 0, "ok", <<>>)
Ready == last = Idle

\* record_log: placeholder event, published only when a logging contract is set
record_log(event_type) ==
  IF IsSome(logging_contract) THEN <<event_type>> ELSE <<>>

Init ==
  /\ admin = None
  /\ paused = None
  /\ logging_contract = None
  /\ subs = [s \in SubIds |-> None]
  /\ lifecycle = [s \in SubIds |-> None]
  /\ approvals = [k \in ApprovalKeys |-> None]
  /\ cycles = [s \in SubIds |-> None]
  /\ locks = [s \in SubIds |-> None]
  /\ ledger = 0
  /\ overflow_checks \in BOOLEAN
  /\ streak = [s \in SubIds |-> 0]
  /\ last = Idle
  /\ workers = <<>>
  /\ OthersInit

\* The host closes a ledger: the sequence number advances
AdvanceLedger ==
  /\ Ready
  /\ ledger < MaxLedger
  /\ ledger' = ledger + 1
  /\ UNCHANGED <<storage, overflow_checks, streak, last, peers>>

\* The host hands the result of the finished invocation to its caller; the
\* ledger applies invocations one at a time
Return ==
  /\ ~Ready
  /\ last' = Idle
  /\ UNCHANGED <<storage, ledger, overflow_checks, streak, peers>>

\* ---------------------------------------------------------------------
\* Admin / pause management
\* ---------------------------------------------------------------------
\* Variant of AlreadyInitialized: init does not look for a stored admin
AlreadyInitializedUnchecked == FALSE

\* An admin is stored
AlreadyInitialized == IsSome(admin)

init(a) ==
  IF AlreadyInitialized
  THEN Abort("init", 0, "Already initialized")
  ELSE /\ admin' = Some(a)
       /\ paused' = Some(FALSE)
       /\ last' = Call("init", 0, "ok", <<>>)
       /\ UNCHANGED <<logging_contract, subs, lifecycle, approvals, cycles, locks,
                      ledger, overflow_checks, streak>>

\* Variant of require_admin: the signer is not compared with the admin
RequireAdminAnyone(signer) ==
  IF ~IsSome(admin) THEN "Contract not initialized" ELSE "ok"

\* require_admin: "ok" or the panic it raises for the given signer
require_admin(signer) ==
  IF ~IsSome(admin) THEN "Contract not initialized"
  ELSE IF signer # Unwrap(admin) THEN "Unauthorized"
  ELSE "ok"

set_paused(signer, p) ==
  IF require_admin(signer) # "ok"
  THEN Abort("set_paused", 0, require_admin(signer))
  ELSE /\ paused' = Some(p)
       /\ last' = Call("set_paused", 0, "ok", <<IF p THEN "PauseToggled:true" ELSE "PauseToggled:false">>)
       /\ UNCHANGED <<admin, logging_contract, subs, lifecycle, approvals, cycles, locks,
                      ledger, overflow_checks, streak>>

set_logging_contract(signer, address) ==
  IF require_admin(signer) # "ok"
  THEN Abort("set_logging_contract", 0, require_admin(signer))
  ELSE /\ logging_contract' = Some(address)
       /\ last' = Call("set_logging_contract", 0, "ok", <<>>)
       /\ UNCHANGED <<admin, paused, subs, lifecycle, approvals, cycles, locks,
                      ledger, overflow_checks, streak>>

\* ---------------------------------------------------------------------
\* Renewal lock management
\* ---------------------------------------------------------------------
\* locked_at + lock_timeout as the contract computes it (u32)
LockSumTraps(ld) == overflow_checks /\ AddOverflows(ld.locked_at, ld.lock_timeout)
LockExpiry(ld) == WrappingAdd(ld.locked_at, ld.lock_timeout)

\* Variant of LockStillActive: the lock is still exclusive at the ledger it
\* runs out
LockStillActiveLate(ld) == ledger <= LockExpiry(ld)

\* The comparison that keeps a stored lock exclusive
LockStillActive(ld) == ledger < LockExpiry(ld)

acquire_renewal_lock(s, lock_timeout) ==
  IF is_paused
  THEN Abort("acquire_renewal_lock", s, "Protocol is paused")
  ELSE IF IsSome(locks[s]) /\ LockSumTraps(Unwrap(locks[s]))
  THEN Abort("acquire_renewal_lock", s, "attempt to add with overflow")
  ELSE IF IsSome(locks[s]) /\ LockStillActive(Unwrap(locks[s]))
  THEN Abort("acquire_renewal_lock", s, "Renewal lock active")
  ELSE /\ locks' = [locks EXCEPT ![s] =
                      Some([locked_at |-> ledger, lock_timeout |-> lock_timeout])]
       /\ last' = Call("acquire_renewal_lock", s, "ok",
                       (IF IsSome(locks[s])
                        THEN <<"RenewalLockExpired">>
                        ELSE <<>>)
                       \o <<"RenewalLockAcquired">>)
       /\ UNCHANGED <<admin, paused, logging_contract, subs, lifecycle, approvals, cycles,
                      ledger, overflow_checks, streak>>

release_renewal_lock(s) ==
  IF ~IsSome(locks[s])
  THEN Abort("release_renewal_lock", s, "No renewal lock to release")
  ELSE /\ locks' = [locks EXCEPT ![s] = None]
       /\ last' = Call("release_renewal_lock", s, "ok",
                       <<"RenewalLockReleased">>)
       /\ UNCHANGED <<admin, paused, logging_contract, subs, lifecycle, approvals, cycles,
                      ledger, overflow_checks, streak>>

\* get_renewal_lock
get_renewal_lock(s) == locks[s]

\* ---------------------------------------------------------------------
\* Subscription logic
\* ---------------------------------------------------------------------
init_sub(owner, merchant, amount, frequency, spending_cap, s) ==
  /\ subs' = [subs EXCEPT ![s] = Some(
       [owner |-> owner, merchant |-> merchant, amount |-> amount,
        frequency |-> frequency, spending_cap |-> spending_cap,
        integrity_hash |-> IntegrityHash(merchant, amount, frequency, spending_cap),
        state |-> "Active", failure_count |-> 0, last_attempt_ledger |-> 0])]
  /\ lifecycle' = [lifecycle EXCEPT ![s] = Some(
       [created_at |-> LedgerTimestamp, activated_at |-> LedgerTimestamp,
        last_renewed_at |-> 0, canceled_at |-> 0])]
  /\ streak' = [streak EXCEPT ![s] = 0]
  /\ last' = Call("init_sub", s, "ok",
                  <<"LifecycleTimestampUpdated:created", "LifecycleTimestampUpdated:activated">>
                  \o record_log("log:Subscription initialized"))
  /\ UNCHANGED <<admin, paused, logging_contract, approvals, cycles, locks,
                 ledger, overflow_checks>>

\* Variant of CancelledData: the failure count is cleared too
CancelledDataResetsCount(data) == [data EXCEPT !.state = "Cancelled", !.failure_count = 0]

\* The record written by cancel_sub
CancelledData(data) == [data EXCEPT !.state = "Cancelled"]

cancel_sub(signer, s) ==
  IF ~IsSome(subs[s])
  THEN Abort("cancel_sub", s, "Subscription not found")
  ELSE IF signer # Unwrap(subs[s]).owner
  THEN Abort("cancel_sub", s, "Unauthorized")
  ELSE IF Unwrap(subs[s]).state = "Cancelled"
  THEN Abort("cancel_sub", s, "Subscription already cancelled")
  ELSE IF ~IsSome(lifecycle[s])
  THEN Abort("cancel_sub", s, "Lifecycle data not found")
  ELSE /\ subs' = [subs EXCEPT ![s] = Some(CancelledData(Unwrap(subs[s])))]
       /\ lifecycle' = [lifecycle EXCEPT ![s] =
                          Some([Unwrap(lifecycle[s]) EXCEPT !.canceled_at = LedgerTimestamp])]
       /\ last' = Call("cancel_sub", s, "ok",
                       <<"LifecycleTimestampUpdated:canceled">>
                       \o record_log("log:Subscription cancelled")
                       \o <<"StateTransition:Cancelled">>)
       /\ UNCHANGED <<admin, paused, logging_contract, approvals, cycles, locks,
                      ledger, overflow_checks, streak>>

\* ---------------------------------------------------------------------
\* Approval management
\* ---------------------------------------------------------------------
approve_renewal(signer, s, approval_id, max_spend, expires_at) ==
  IF ~IsSome(subs[s])
  THEN Abort("approve_renewal", s, "Subscription not found")
  ELSE IF signer # Unwrap(subs[s]).owner
  THEN Abort("approve_renewal", s, "Unauthorized")
  ELSE /\ approvals' = [approvals EXCEPT ![<<s, approval_id>>] = Some(
            [sub_id |-> s, max_spend |-> max_spend, expires_at |-> expires_at,
             used |-> FALSE])]
       /\ last' = Call("approve_renewal", s, "ok",
                       <<"ApprovalCreated">>)
       /\ UNCHANGED <<admin, paused, logging_contract, subs, lifecycle, cycles, locks,
                      ledger, overflow_checks, streak>>

\* Variants of consume_approval: the used flag is not looked at; the amount
\* is not compared; the amount is compared before the expiry
ConsumeApprovalIgnoresUsed(s, approval_id, amount) ==
  LET a == approvals[<<s, approval_id>>] IN
  IF ~IsSome(a) THEN 4
  ELSE IF ledger > Unwrap(a).expires_at THEN 1
  ELSE IF amount > Unwrap(a).max_spend THEN 3
  ELSE 0
ConsumeApprovalAnyAmount(s, approval_id, amount) ==
  LET a == approvals[<<s, approval_id>>] IN
  IF ~IsSome(a) THEN 4
  ELSE IF Unwrap(a).used THEN 2
  ELSE IF ledger > Unwrap(a).expires_at THEN 1
  ELSE 0
ConsumeApprovalAmountFirst(s, approval_id, amount) ==
  LET a == approvals[<<s, approval_id>>] IN
  IF ~IsSome(a) THEN 4
  ELSE IF Unwrap(a).used THEN 2
  ELSE IF amount > Unwrap(a).max_spend THEN 3
  ELSE IF ledger > Unwrap(a).expires_at THEN 1
  ELSE 0

\* consume_approval: 0 when the approval is accepted, else the rejection
\* reason (1=expired, 2=used, 3=amount_exceeded, 4=not_found)
consume_approval(s, approval_id, amount) ==
  LET a == approvals[<<s, approval_id>>] IN
  IF ~IsSome(a) THEN 4
  ELSE IF Unwrap(a).used THEN 2
  ELSE IF ledger > Unwrap(a).expires_at THEN 1
  ELSE IF amount > Unwrap(a).max_spend THEN 3
  ELSE 0

\* ---------------------------------------------------------------------
\* Renewal logic
\* ---------------------------------------------------------------------
\* The cooldown is looked at only after a failed attempt
CooldownApplies(data) == data.failure_count > 0

\* last_attempt_ledger + cooldown_ledgers as the contract computes it (u32);
\* the sum is evaluated only when failure_count > 0
CooldownSumTraps(data, cooldown_ledgers) ==
  /\ CooldownApplies(data)
  /\ overflow_checks
  /\ AddOverflows(data.last_attempt_ledger, cooldown_ledgers)
CooldownActive(data, cooldown_ledgers) ==
  /\ CooldownApplies(data)
  /\ ledger < WrappingAdd(data.last_attempt_ledger, cooldown_ledgers)

\* Variant of DuplicateCycle: the cycle guard is left out
DuplicateCycleUnchecked(s, cycle_id) == FALSE

\* Cycle guard: cycle_id is the cycle the stored marker remembers
DuplicateCycle(s, cycle_id) == IsSome(cycles[s]) /\ cycle_id = Unwrap(cycles[s])

\* Variant of IntegrityViolated: the digest is not compared
IntegrityUnchecked(data) == FALSE

\* The digest recomputed from the record's current fields differs from the stored one
IntegrityViolated(data) ==
  IntegrityHash(data.merchant, data.amount, data.frequency, data.spending_cap)
    # data.integrity_hash

\* Variant of IsFailed: the Failed-state check is left out
IsFailedUnchecked(data) == FALSE

\* The subscription can no longer be renewed
IsFailed(data) == data.state = "Failed"

\* Variant of LockExpired: the lock still counts at the ledger it runs out
LockExpiredLate(ld) == ledger > LockExpiry(ld)

\* The stored lock no longer covers the current ledger
LockExpired(ld) == ledger >= LockExpiry(ld)

\* Variants of FailureState: one more retry is granted; the last retry is
\* taken away
FailureStateLate(failure_count, max_retries) ==
  IF failure_count > max_retries + 1 THEN "Failed" ELSE "Retrying"
FailureStateEarly(failure_count, max_retries) ==
  IF failure_count >= max_retries THEN "Failed" ELSE "Retrying"

\* State after a failed attempt that brought the count to failure_count
FailureState(failure_count, max_retries) ==
  IF failure_count > max_retries THEN "Failed" ELSE "Retrying"

\* The precondition checks of renew, in the order of the code: the panic
\* message of the first check that fails, or "ok"
RenewPanic(s, approval_id, amount, cooldown_ledgers, cycle_id) ==
  IF is_paused THEN "Protocol is paused"
  ELSE IF ~IsSome(subs[s]) THEN "Subscription not found"
  ELSE IF IsFailed(Unwrap(subs[s])) THEN "Subscription is in FAILED state"
  ELSE IF ~IsSome(locks[s]) THEN "Renewal lock required"
  ELSE IF LockSumTraps(Unwrap(locks[s])) THEN "attempt to add with overflow"
  ELSE IF LockExpired(Unwrap(locks[s])) THEN "Renewal lock expired"
  ELSE IF DuplicateCycle(s, cycle_id) THEN "Duplicate renewal for cycle"
  ELSE IF CooldownSumTraps(Unwrap(subs[s]), cooldown_ledgers) THEN "attempt to add with overflow"
  ELSE IF CooldownActive(Unwrap(subs[s]), cooldown_ledgers) THEN "Cooldown period active"
  ELSE IF consume_approval(s, approval_id, amount) # 0 THEN "Invalid or expired approval"
  ELSE IF IntegrityViolated(Unwrap(subs[s]))
       THEN "Subscription integrity violation: parameters tampered"
  ELSE "ok"

\* Variant of ConsumedApprovals: the record is not marked used
ConsumedApprovalsUnmarked(s, approval_id) == approvals

\* The approval record after consume_approval accepted it
ConsumedApprovals(s, approval_id) ==
  [approvals EXCEPT ![<<s, approval_id>>] =
     Some([Unwrap(approvals[<<s, approval_id>>]) EXCEPT !.used = TRUE])]

\* Variant of RenewedData: the state is left as it was
RenewedDataKeepsState(data) ==
  [data EXCEPT !.failure_count = 0, !.last_attempt_ledger = ledger]

\* Variant of RenewedData: the failure count survives the renewal
RenewedDataKeepsCount(data) ==
  [data EXCEPT !.state = "Active", !.last_attempt_ledger = ledger]

\* The record written by a successful renewal
RenewedData(data) ==
  [data EXCEPT !.state = "Active", !.failure_count = 0, !.last_attempt_ledger = ledger]

\* Variant of RenewedCycles: the marker is not written
RenewedCyclesStale(s, cycle_id) == cycles

\* The cycle markers written by a successful renewal
RenewedCycles(s, cycle_id) == [cycles EXCEPT ![s] = Some(cycle_id)]

\* Variant of RolledBack: the writes made before the panic survive
NotRolledBack(before, attempted) == attempted

\* The host discards the writes an invocation attempted before it panicked
RolledBack(before, attempted) == before

\* Variants of AutoReleased: the lock is left for the caller to release;
\* the locks of all subscriptions are removed
AutoReleasedAll(s) == [x \in DOMAIN locks |-> None]
AutoReleaseSkipped(s) == locks

\* Auto-release: renew removes the lock before it returns
AutoReleased(s) == [locks EXCEPT ![s] = None]

RenewSuccess(s, approval_id, cycle_id) ==
  LET data == Unwrap(subs[s])
      recovering == data.state = "Retrying"
  IN
  IF ~IsSome(lifecycle[s])
  THEN Abort("renew", s, "Lifecycle data not found")
  ELSE /\ approvals' = ConsumedApprovals(s, approval_id)
       /\ subs' = [subs EXCEPT ![s] = Some(RenewedData(data))]
       /\ cycles' = RenewedCycles(s, cycle_id)
       /\ lifecycle' = [lifecycle EXCEPT ![s] = Some(
            [Unwrap(lifecycle[s]) EXCEPT
               !.last_renewed_at = LedgerTimestamp,
               !.activated_at = IF recovering THEN LedgerTimestamp ELSE @])]
       /\ locks' = AutoReleased(s)
       /\ streak' = [streak EXCEPT ![s] = 0]
       /\ last' = Call("renew", s, "true",
            <<"RenewalSuccess", "LifecycleTimestampUpdated:renewed">>
            \o (IF recovering THEN <<"LifecycleTimestampUpdated:activated">> ELSE <<>>)
            \o <<"RenewalLockReleased">>
            \o record_log("log:Renewal successful"))
       /\ UNCHANGED <<admin, paused, logging_contract, ledger, overflow_checks>>

RenewFailure(s, approval_id, max_retries) ==
  LET data == Unwrap(subs[s])
      count == WrappingAdd(data.failure_count, 1)
      new_state == FailureState(count, max_retries)
  IN
  IF overflow_checks /\ AddOverflows(data.failure_count, 1)
  THEN Abort("renew", s, "attempt to add with overflow")
  ELSE /\ approvals' = ConsumedApprovals(s, approval_id)
       /\ subs' = [subs EXCEPT ![s] = Some(
            [data EXCEPT !.state = new_state, !.failure_count = count,
                         !.last_attempt_ledger = ledger])]
       /\ locks' = AutoReleased(s)
       /\ streak' = [streak EXCEPT ![s] = @ + 1]
       /\ last' = Call("renew", s, "false",
            <<"RenewalFailed">>
            \o (IF new_state = "Failed"
                THEN <<"StateTransition:Failed">>
                     \o record_log("log:Renewal failed - max retries exceeded")
                ELSE <<"StateTransition:Retrying">>
                     \o record_log("log:Renewal failed - scheduled for retry"))
            \o <<"RenewalLockReleased">>)
       /\ UNCHANGED <<admin, paused, logging_contract, lifecycle, cycles,
                      ledger, overflow_checks>>

\* The integrity check panics after consume_approval has marked the
\* approval used
IntegrityAbort(s, approval_id) ==
  /\ approvals' = RolledBack(approvals, ConsumedApprovals(s, approval_id))
  /\ last' = Call("renew", s, "Subscription integrity violation: parameters tampered", <<>>)
  /\ UNCHANGED <<admin, paused, logging_contract, subs, lifecycle, cycles, locks,
                 ledger, overflow_checks, streak>>

renew(s, approval_id, amount, max_retries, cooldown_ledgers, cycle_id, succeed) ==
  IF RenewPanic(s, approval_id, amount, cooldown_ledgers, cycle_id)
       = "Subscription integrity violation: parameters tampered"
  THEN IntegrityAbort(s, approval_id)
  ELSE IF RenewPanic(s, approval_id, amount, cooldown_ledgers, cycle_id) # "ok"
  THEN Abort("renew", s, RenewPanic(s, approval_id, amount, cooldown_ledgers, cycle_id))
  ELSE IF succeed
  THEN RenewSuccess(s, approval_id, cycle_id)
  ELSE RenewFailure(s, approval_id, max_retries)

\* get_sub
get_sub(s) == subs[s]

\* ---------------------------------------------------------------------
\* Specification
\* ---------------------------------------------------------------------
\* The model stops counting failed attempts at MaxFailureCount
FailuresBounded(s, succeed) ==
  IF succeed \/ ~IsSome(subs[s]) THEN TRUE
  ELSE Unwrap(subs[s]).failure_count < MaxFailureCount

DoInit == Ready /\ UNCHANGED peers /\ \E a \in Admins : init(a)
DoSetPaused == Ready /\ UNCHANGED peers /\ \E signer \in Signers, p \in BOOLEAN : set_paused(signer, p)
DoSetLoggingContract == Ready /\ UNCHANGED peers /\ \E signer \in Signers : set_logging_contract(signer, "logger")
DoAcquireLock == Ready /\ UNCHANGED peers /\ \E s \in SubIds, t \in LockTimeouts : acquire_renewal_lock(s, t)
DoReleaseLock == Ready /\ UNCHANGED peers /\ \E s \in SubIds : release_renewal_lock(s)
DoInitSub ==
  Ready /\ UNCHANGED peers /\ \E owner \in Owners, merchant \in Merchants, amount \in SubAmounts,
     frequency \in Frequencies, cap \in SpendingCaps, s \in SubIds :
       init_sub(owner, merchant, amount, frequency, cap, s)
DoCancelSub == Ready /\ UNCHANGED peers /\ \E signer \in Signers, s \in SubIds : cancel_sub(signer, s)
DoApproveRenewal ==
  Ready /\ UNCHANGED peers /\ \E signer \in Signers, s \in SubIds, approval_id \in ApprovalIds,
     max_spend \in MaxSpends, expires_at \in ExpiryHeights :
       approve_renewal(signer, s, approval_id, max_spend, expires_at)
DoRenew ==
  Ready /\ UNCHANGED peers /\ \E s \in SubIds, approval_id \in ApprovalIds, amount \in RenewAmounts,
     max_retries \in RetryLimits, cooldown_ledgers \in Cooldowns,
     cycle_id \in CycleIds, succeed \in BOOLEAN :
       /\ FailuresBounded(s, succeed)
       /\ renew(s, approval_id, amount, max_retries, cooldown_ledgers, cycle_id, succeed)

Next ==
  \/ AdvanceLedger
  \/ Return
  \/ DoInit
  \/ DoSetPaused
  \/ DoAcquireLock
  \/ DoReleaseLock
  \/ DoInitSub
  \/ DoCancelSub
  \/ DoApproveRenewal
  \/ DoRenew

Spec == Init /\ [][Next]_vars

\* ---------------------------------------------------------------------
\* Two renewal workers on one subscription and one billing cycle
\* ---------------------------------------------------------------------
\* A worker's job: the approval and the cycle it presents, the call it makes
\* next and the result of its renew
WorkerJob(approval_id, cycle_id) ==
  [pc |-> "acquire", approval_id |-> approval_id, cycle_id |-> cycle_id, res |-> "none"]

\* The contract is initialised, the subscription exists and its owner has
\* approved one renewal; both workers are handed the same job
InitWorkers ==
  /\ admin = Some("admin")
  /\ paused = Some(FALSE)
  /\ logging_contract = None
  /\ \E owner \in Owners, merchant \in Merchants, amount \in SubAmounts,
        frequency \in Frequencies, cap \in SpendingCaps :
       subs = [s \in SubIds |-> Some(
         [owner |-> owner, merchant |-> merchant, amount |-> amount,
          frequency |-> frequency, spending_cap |-> cap,
          integrity_hash |-> IntegrityHash(merchant, amount, frequency, cap),
          state |-> "Active", failure_count |-> 0, last_attempt_ledger |-> 0])]
  /\ lifecycle = [s \in SubIds |-> Some(
       [created_at |-> 0, activated_at |-> 0, last_renewed_at |-> 0, canceled_at |-> 0])]
  /\ \E max_spend \in MaxSpends, expires_at \in ExpiryHeights :
       approvals = [k \in ApprovalKeys |-> Some(
         [sub_id |-> k[1], max_spend |-> max_spend, expires_at |-> expires_at,
          used |-> FALSE])]
  /\ cycles = [s \in SubIds |-> None]
  /\ locks = [s \in SubIds |-> None]
  /\ ledger = 0
  /\ overflow_checks \in BOOLEAN
  /\ streak = [s \in SubIds |-> 0]
  /\ last = Idle
  /\ \E approval_id \in ApprovalIds, cycle_id \in CycleIds :
       workers = [w \in Workers |-> WorkerJob(approval_id, cycle_id)]
  /\ OthersInit

\* The subscription the workers renew
WorkerSub == CHOOSE s \in SubIds : TRUE

\* A worker's first transaction: it asks for the lock; whether or not it got
\* it, its renew transaction follows
WorkerAcquire(w) ==
  /\ Ready
  /\ workers[w].pc = "acquire"
  /\ \E t \in LockTimeouts : acquire_renewal_lock(WorkerSub, t)
  /\ workers' = [workers EXCEPT ![w].pc = "renew"]
  /\ UNCHANGED others

\* A worker's second transaction: renew for its job
WorkerRenew(w) ==
  /\ Ready
  /\ workers[w].pc = "renew"
  /\ \E amount \in RenewAmounts, max_retries \in RetryLimits,
        cooldown_ledgers \in Cooldowns, succeed \in BOOLEAN :
       renew(WorkerSub, workers[w].approval_id, amount, max_retries, cooldown_ledgers,
             workers[w].cycle_id, succeed)
  /\ workers' = [workers EXCEPT ![w].pc = "done", ![w].res = last'.res]
  /\ UNCHANGED others

NextWorkers ==
  \/ AdvanceLedger
  \/ Return
  \/ \E w \in Workers : WorkerAcquire(w)
  \/ \E w \in Workers : WorkerRenew(w)

SpecWorkers == InitWorkers /\ [][NextWorkers]_vars

\* ---------------------------------------------------------------------
\* Stored subscriptions changed behind the contract's back
\* ---------------------------------------------------------------------
\* Values a tampered field is set to, per field of SubscriptionData
TamperedFields ==
  { <<"merchant", "mallory">>, <<"amount", 6>>, <<"frequency", 7>>, <<"spending_cap", 99>> }

\* One of the four digested fields of a stored subscription is overwritten
\* and the stored digest is left as init_sub computed it
Tamper(s, field, value) ==
  /\ Ready
  /\ IsSome(subs[s])
  /\ ~IntegrityViolated(Unwrap(subs[s]))
  /\ subs' = [subs EXCEPT ![s] = Some([Unwrap(subs[s]) EXCEPT ![field] = value])]
  /\ UNCHANGED <<admin, paused, logging_contract, lifecycle, approvals, cycles, locks,
                 ledger, overflow_checks, streak, last, peers>>

DoTamper == \E s \in SubIds, f \in TamperedFields : Tamper(s, f[1], f[2])

\* The entry points a renewal goes through, and the tampering
NextTamper ==
  \/ AdvanceLedger
  \/ Return
  \/ DoInit
  \/ DoSetPaused
  \/ DoAcquireLock
  \/ DoInitSub
  \/ DoApproveRenewal
  \/ DoRenew
  \/ DoTamper

SpecTamper == Init /\ [][NextTamper]_vars

\* ---------------------------------------------------------------------
\* Two subscriptions side by side
\* ---------------------------------------------------------------------
PairIds == {1, 2}

\* Nothing is stored yet for either id
InitPair ==
  /\ admin = None
  /\ paused = None
  /\ logging_contract = None
  /\ subs = [s \in PairIds |-> None]
  /\ lifecycle = [s \in PairIds |-> None]
  /\ approvals = [k \in PairIds \X ApprovalIds |-> None]
  /\ cycles = [s \in PairIds |-> None]
  /\ locks = [s \in PairIds |-> None]
  /\ ledger = 0
  /\ overflow_checks \in BOOLEAN
  /\ streak = [s \in PairIds |-> 0]
  /\ last = Idle
  /\ workers = <<>>
  /\ OthersInit

\* The entry points that take a subscription id, called for either id within
\* one ledger; each subscription is renewed for the cycle numbered like it
PairInitSub ==
  Ready /\ UNCHANGED peers /\ \E s \in PairIds, merchant \in Merchants,
     amount \in SubAmounts, frequency \in Frequencies, cap \in SpendingCaps :
       init_sub("alice", merchant, amount, frequency, cap, s)
PairApproveRenewal ==
  Ready /\ UNCHANGED peers /\ \E s \in PairIds, approval_id \in ApprovalIds,
     max_spend \in MaxSpends :
       approve_renewal("alice", s, approval_id, max_spend, MaxLedger)
PairAcquireLock ==
  Ready /\ UNCHANGED peers /\ \E s \in PairIds : acquire_renewal_lock(s, 1)
PairReleaseLock ==
  Ready /\ UNCHANGED peers /\ \E s \in PairIds : release_renewal_lock(s)
PairCancelSub ==
  Ready /\ UNCHANGED peers /\ \E s \in PairIds : cancel_sub("alice", s)
PairRenew ==
  Ready /\ UNCHANGED peers /\ \E s \in PairIds, approval_id \in ApprovalIds,
     amount \in SubAmounts, succeed \in BOOLEAN :
       /\ FailuresBounded(s, succeed)
       /\ renew(s, approval_id, amount, MaxRetriesBound, 0, s, succeed)

NextPair ==
  \/ Return
  \/ PairInitSub
  \/ PairApproveRenewal
  \/ PairAcquireLock
  \/ PairReleaseLock
  \/ PairCancelSub
  \/ PairRenew

SpecPair == InitPair /\ [][NextPair]_vars

\* ---------------------------------------------------------------------
\* Locks that nobody releases, over the whole range of ledger heights
\* ---------------------------------------------------------------------
\* The host closes a ledger, up to the last height a u32 can hold
AdvanceLedgerToEnd ==
  /\ Ready
  /\ ledger < WordMax
  /\ ledger' = ledger + 1
  /\ UNCHANGED <<storage, overflow_checks, streak, last, peers>>

NextLocks ==
  \/ AdvanceLedgerToEnd
  \/ Return
  \/ DoAcquireLock

\* Ledgers keep closing whatever is invoked, and every invocation returns
SpecLocks ==
  Init /\ [][NextLocks]_vars /\ SF_vars(AdvanceLedgerToEnd) /\ WF_vars(Return)

\* ---------------------------------------------------------------------
\* Administration: init with any address, pause, logging contract
\* ---------------------------------------------------------------------
DoInitAny == Ready /\ UNCHANGED peers /\ \E a \in Signers : init(a)

NextAdmin ==
  \/ AdvanceLedger
  \/ Return
  \/ DoInitAny
  \/ DoSetPaused
  \/ DoSetLoggingContract
  \/ DoAcquireLock

SpecAdmin == Init /\ [][NextAdmin]_vars

\* ---------------------------------------------------------------------
\* Approvals granted and renewals committed, counted per subscription
\* ---------------------------------------------------------------------
MaxApprovals == 3
TallyApprovalIds == {1, 2}

\* Nothing is stored yet; two approval ids are in use
InitTally ==
  /\ admin = None
  /\ paused = None
  /\ logging_contract = None
  /\ subs = [s \in SubIds |-> None]
  /\ lifecycle = [s \in SubIds |-> None]
  /\ approvals = [k \in SubIds \X TallyApprovalIds |-> None]
  /\ cycles = [s \in SubIds |-> None]
  /\ locks = [s \in SubIds |-> None]
  /\ ledger = 0
  /\ overflow_checks \in BOOLEAN
  /\ streak = [s \in SubIds |-> 0]
  /\ last = Idle
  /\ workers = <<>>
  /\ OthersInit

\* approve_renewal by any signer; a committed call is counted
TallyApprove ==
  /\ Ready
  /\ \E signer \in Owners, s \in SubIds, approval_id \in TallyApprovalIds,
        max_spend \in MaxSpends, expires_at \in ExpiryHeights :
       /\ history.approved[s] < MaxApprovals
       /\ approve_renewal(signer, s, approval_id, max_spend, expires_at)
       /\ history' = IF last'.res = "ok"
                     THEN [history EXCEPT !.approved[s] = @ + 1]
                     ELSE history
  /\ UNCHANGED <<workers, logs, registry, agents>>

\* renew for the one billing cycle after the other; a committed call is counted
TallyRenew ==
  /\ Ready
  /\ \E s \in SubIds, approval_id \in TallyApprovalIds, amount \in RenewAmounts,
        cycle_id \in CycleIds, succeed \in BOOLEAN :
       /\ FailuresBounded(s, succeed)
       /\ renew(s, approval_id, amount, MaxRetriesBound, 0, cycle_id, succeed)
       /\ history' = IF last'.res \in {"true", "false"}
                     THEN [history EXCEPT !.renewed[s] = @ + 1]
                     ELSE history
  /\ UNCHANGED <<workers, logs, registry, agents>>

NextTally ==
  \/ AdvanceLedger
  \/ Return
  \/ DoInitSub
  \/ DoAcquireLock
  \/ TallyApprove
  \/ TallyRenew

SpecTally == InitTally /\ [][NextTally]_vars

\* ---------------------------------------------------------------------
\* Workers that take, release and use the lock of a subscription
\* ---------------------------------------------------------------------
\* A worker asks for the lock; the worker whose call commits holds it
HolderAcquire ==
  /\ Ready
  /\ \E w \in Workers, s \in SubIds, t \in LockTimeouts :
       /\ acquire_renewal_lock(s, t)
       /\ history' = IF last'.res = "ok"
                     THEN [history EXCEPT !.holder[s] = Some(w), !.caller = Some(w)]
                     ELSE [history EXCEPT !.caller = Some(w)]
  /\ UNCHANGED <<workers, logs, registry, agents>>

\* A worker calls release_renewal_lock
HolderRelease ==
  /\ Ready
  /\ \E w \in Workers, s \in SubIds :
       /\ release_renewal_lock(s)
       /\ history' = IF last'.res = "ok"
                     THEN [history EXCEPT !.holder[s] = None, !.caller = Some(w)]
                     ELSE [history EXCEPT !.caller = Some(w)]
  /\ UNCHANGED <<workers, logs, registry, agents>>

\* A worker calls renew; a committed renew removes the lock
HolderRenew ==
  /\ Ready
  /\ \E w \in Workers, s \in SubIds, approval_id \in ApprovalIds, amount \in SubAmounts,
        cycle_id \in CycleIds, succeed \in BOOLEAN :
       /\ FailuresBounded(s, succeed)
       /\ renew(s, approval_id, amount, MaxRetriesBound, 0, cycle_id, succeed)
       /\ history' = IF last'.res \in {"true", "false"}
                     THEN [history EXCEPT !.holder[s] = None, !.caller = Some(w)]
                     ELSE [history EXCEPT !.caller = Some(w)]
  /\ UNCHANGED <<workers, logs, registry, agents>>

NextHolders ==
  \/ AdvanceLedger
  \/ Return
  \/ DoInitSub
  \/ DoApproveRenewal
  \/ HolderAcquire
  \/ HolderRelease
  \/ HolderRenew

SpecHolders == Init /\ [][NextHolders]_vars

\* ---------------------------------------------------------------------
\* The billing cycles a subscription has been renewed for
\* ---------------------------------------------------------------------
\* renew; a call that returns true adds its cycle_id to the cycles renewed
CycleRenew ==
  /\ Ready
  /\ \E s \in SubIds, approval_id \in ApprovalIds, amount \in SubAmounts,
        cycle_id \in CycleIds, succeed \in BOOLEAN :
       /\ FailuresBounded(s, succeed)
       /\ renew(s, approval_id, amount, MaxRetriesBound, 0, cycle_id, succeed)
       /\ history' = IF last'.res = "true"
                     THEN [history EXCEPT !.applied[s] = @ \cup {cycle_id}]
                     ELSE history
  /\ UNCHANGED <<workers, logs, registry, agents>>

NextCycles ==
  \/ AdvanceLedger
  \/ Return
  \/ DoInitSub
  \/ DoApproveRenewal
  \/ DoAcquireLock
  \/ CycleRenew

SpecCycles == Init /\ [][NextCycles]_vars

\* ---------------------------------------------------------------------
\* Every renew is called with the same max_retries
\* ---------------------------------------------------------------------
FixedRetries == 0

FixedRenew ==
  Ready /\ UNCHANGED peers /\ \E s \in SubIds, approval_id \in ApprovalIds,
     amount \in SubAmounts, cycle_id \in CycleIds, succeed \in BOOLEAN :
       /\ FailuresBounded(s, succeed)
       /\ renew(s, approval_id, amount, FixedRetries, 0, cycle_id, succeed)

NextFixedRetries ==
  \/ AdvanceLedger
  \/ Return
  \/ DoInitSub
  \/ DoCancelSub
  \/ DoApproveRenewal
  \/ DoAcquireLock
  \/ DoReleaseLock
  \/ FixedRenew

SpecFixedRetries == Init /\ [][NextFixedRetries]_vars

\* ---------------------------------------------------------------------
\* Approvals whose max_spend is above the subscription's spending cap
\* ---------------------------------------------------------------------
CapMaxSpends == {10, 20}

\* approve_renewal signed by the owner, for any max_spend
CapApprove ==
  Ready /\ UNCHANGED peers /\ \E s \in SubIds, approval_id \in ApprovalIds,
     max_spend \in CapMaxSpends, expires_at \in ExpiryHeights :
       /\ IsSome(subs[s])
       /\ approve_renewal(Unwrap(subs[s]).owner, s, approval_id, max_spend, expires_at)

CapRenew ==
  Ready /\ UNCHANGED peers /\ \E s \in SubIds, approval_id \in ApprovalIds,
     amount \in RenewAmounts, cycle_id \in CycleIds, succeed \in BOOLEAN :
       /\ FailuresBounded(s, succeed)
       /\ renew(s, approval_id, amount, MaxRetriesBound, 0, cycle_id, succeed)

NextCap ==
  \/ AdvanceLedger
  \/ Return
  \/ DoInitSub
  \/ DoAcquireLock
  \/ CapApprove
  \/ CapRenew

SpecCap == Init /\ [][NextCap]_vars

\* ---------------------------------------------------------------------
\* Logging contract (subscription_logging)
\* ---------------------------------------------------------------------
\* Variant of push_back: the entry is put in front
PushFront(v, e) == <<e>> \o v

\* Vec::push_back
push_back(v, e) == Append(v, e)

\* get_logs: the stored vector, or an empty one when the key is absent
get_logs(s) == IF IsSome(logs[s]) THEN Unwrap(logs[s]) ELSE <<>>

LogEntry(s, event, data) ==
  [sub_id |-> s, event |-> event, timestamp |-> LedgerTimestamp, data |-> data]

\* record_log of the logging contract
logging_record_log(s, event, data) ==
  /\ logs' = [logs EXCEPT ![s] = Some(push_back(get_logs(s), LogEntry(s, event, data)))]
  /\ last' = Call("logging.record_log", s, "ok", <<>>)
  /\ UNCHANGED <<storage, ledger, overflow_checks, streak, workers, history, registry, agents>>

DoRecordLog ==
  Ready /\ \E s \in LogIds, event \in LogEvents :
    /\ Len(get_logs(s)) < MaxLogLen
    /\ logging_record_log(s, event, "details")

\* A caller reads a log: the observation carries the returned vector
DoGetLogs ==
  Ready /\ \E s \in LogIds :
    /\ last' = Call("logging.get_logs", s, "ok", get_logs(s))
    /\ UNCHANGED <<storage, ledger, overflow_checks, streak, peers>>

NextLogging ==
  \/ AdvanceLedger
  \/ Return
  \/ DoRecordLog
  \/ DoGetLogs

SpecLogging == Init /\ [][NextLogging]_vars

\* ---------------------------------------------------------------------
\* Metadata registry (subscription_registry)
\* registry.returned and registry.cancelled record the ids that
\* create_subscription has returned and cancel_subscription has cancelled
\* ---------------------------------------------------------------------
ServiceIds == {"svc1"}
BillingIntervals == {0, 30}
ExpectedAmounts == {0, 5}
NextRenewals == {0, 100}
ServiceIdUpdates == {None, Some("svc2")}
BillingIntervalUpdates == {None, Some(0)}
ExpectedAmountUpdates == {None, Some(0)}
NextRenewalUpdates == {None, Some(0), Some(200)}

\* Variant of SubscriptionId: the id leaves the counter out
SubscriptionIdByUser(counter, user) == <<0, UserHash(user)>>

\* The 32 bytes of the id: the counter (big endian) and the user's hash
SubscriptionId(counter, user) == <<counter, UserHash(user)>>

SubscriptionCounter == IF IsSome(registry.counter) THEN Unwrap(registry.counter) ELSE 0

get_subscription(id) == registry.subscription[id]

get_user_subscriptions(user) ==
  IF IsSome(registry.user_subscriptions[user])
  THEN Unwrap(registry.user_subscriptions[user]) ELSE <<>>

\* An invocation of the metadata registry that panics; args are the
\* subscription id and the user it was called with
RegistryPanic(op, msg, args) ==
  /\ last' = Call(op, 0, msg, args)
  /\ UNCHANGED <<storage, ledger, overflow_checks, streak, peers>>

create_subscription(user, service_id, billing_interval, expected_amount, next_renewal) ==
  IF billing_interval = 0
  THEN RegistryPanic("registry.create_subscription", "billing_interval must be greater than 0", <<>>)
  ELSE IF expected_amount <= 0
  THEN RegistryPanic("registry.create_subscription", "expected_amount must be non-negative", <<>>)
  ELSE IF next_renewal = 0
  THEN RegistryPanic("registry.create_subscription", "next_renewal must be greater than 0", <<>>)
  ELSE LET counter == SubscriptionCounter
           id == SubscriptionId(counter, user)
           metadata == [service_id |-> service_id,
                        billing_interval |-> billing_interval,
                        expected_amount |-> expected_amount,
                        next_renewal |-> next_renewal,
                        is_active |-> TRUE]
       IN /\ registry' = [registry EXCEPT
                 !.counter = Some(counter + 1),
                 !.subscription[id] = Some(metadata),
                 !.user_subscriptions[user] = Some(push_back(get_user_subscriptions(user), id)),
                 !.returned = @ \cup {id}]
          /\ last' = Call("registry.create_subscription", 0, "ok", <<id, user>>)
          /\ UNCHANGED <<storage, ledger, overflow_checks, streak, workers, history, logs, agents>>

update_subscription(id, user, service_id, billing_interval, expected_amount, next_renewal) ==
  IF ~IsSome(get_subscription(id))
  THEN RegistryPanic("registry.update_subscription", "subscription not found", <<id, user>>)
  ELSE IF ~Unwrap(get_subscription(id)).is_active
  THEN RegistryPanic("registry.update_subscription", "subscription is not active", <<id, user>>)
  ELSE IF billing_interval = Some(0)
  THEN RegistryPanic("registry.update_subscription", "billing_interval must be greater than 0", <<id, user>>)
  ELSE IF expected_amount = Some(0)
  THEN RegistryPanic("registry.update_subscription", "expected_amount must be non-negative", <<id, user>>)
  ELSE IF next_renewal = Some(0)
  THEN RegistryPanic("registry.update_subscription", "next_renewal must be greater than 0", <<id, user>>)
  ELSE LET old == Unwrap(get_subscription(id))
           metadata == [service_id |-> IF IsSome(service_id) THEN Unwrap(service_id)
                                       ELSE old.service_id,
                        billing_interval |-> IF IsSome(billing_interval)
                                             THEN Unwrap(billing_interval)
                                             ELSE old.billing_interval,
                        expected_amount |-> IF IsSome(expected_amount)
                                            THEN Unwrap(expected_amount)
                                            ELSE old.expected_amount,
                        next_renewal |-> IF IsSome(next_renewal) THEN Unwrap(next_renewal)
                                         ELSE old.next_renewal,
                        is_active |-> old.is_active]
       IN /\ registry' = [registry EXCEPT !.subscription[id] = Some(metadata)]
          /\ last' = Call("registry.update_subscription", 0, "ok", <<id, user>>)
          /\ UNCHANGED <<storage, ledger, overflow_checks, streak, workers, history, logs, agents>>

cancel_subscription(id, user) ==
  IF ~IsSome(get_subscription(id))
  THEN RegistryPanic("registry.cancel_subscription", "subscription not found", <<id, user>>)
  ELSE IF ~Unwrap(get_subscription(id)).is_active
  THEN RegistryPanic("registry.cancel_subscription", "subscription is already cancelled", <<id, user>>)
  ELSE /\ registry' = [registry EXCEPT
              !.subscription[id] = Some([Unwrap(get_subscription(id)) EXCEPT !.is_active = FALSE]),
              !.cancelled = @ \cup {id}]
       /\ last' = Call("registry.cancel_subscription", 0, "ok", <<id, user>>)
       /\ UNCHANGED <<storage, ledger, overflow_checks, streak, workers, history, logs, agents>>

DoCreateSubscription ==
  /\ Ready
  /\ SubscriptionCounter < MaxCreates
  /\ \E user \in Users, service_id \in ServiceIds, billing_interval \in BillingIntervals,
        expected_amount \in ExpectedAmounts, next_renewal \in NextRenewals :
       create_subscription(user, service_id, billing_interval, expected_amount, next_renewal)

DoUpdateSubscription ==
  Ready /\ \E id \in RegistryIds, user \in Users, service_id \in ServiceIdUpdates,
              billing_interval \in BillingIntervalUpdates,
              expected_amount \in ExpectedAmountUpdates,
              next_renewal \in NextRenewalUpdates :
            update_subscription(id, user, service_id, billing_interval,
                                expected_amount, next_renewal)

DoCancelSubscription ==
  Ready /\ \E id \in RegistryIds, user \in Users : cancel_subscription(id, user)

NextRegistry ==
  \/ Return
  \/ DoCreateSubscription
  \/ DoUpdateSubscription
  \/ DoCancelSubscription

SpecRegistry == Init /\ [][NextRegistry]_vars

\* ---------------------------------------------------------------------
\* Agent registry (agent-registry)
\* ---------------------------------------------------------------------
AgentAdmins == {"admin"}
AgentSigners == {"admin", "eve"}

\* The value stored under DataKey::Agent: register stores the bool true,
\* update_scopes stores the u32 mask
AgentFlag == [tag |-> "bool", mask |-> 0]
AgentMask(scopes) == [tag |-> "u32", mask |-> scopes]

\* Variant of MaskHas: any non-empty mask grants every scope
MaskNonZero(mask, scope) == mask # 0

\* (mask & scope as u32) != 0, for a scope that is one bit
MaskHas(mask, scope) == (mask \div scope) % 2 = 1

\* require_admin of the agent registry: "ok", the error it returns, or the
\* failed authentication of the stored admin
agent_require_admin(signer) ==
  IF ~IsSome(agents.admin) THEN "Err(NotInitialized)"
  ELSE IF signer # Unwrap(agents.admin) THEN "Unauthorized"
  ELSE "ok"

\* An invocation of the agent registry that stores nothing
AgentRefused(op, res) ==
  /\ last' = Call(op, 0, res, <<>>)
  /\ UNCHANGED <<storage, ledger, overflow_checks, streak, peers>>

agent_init(a) ==
  IF IsSome(agents.admin)
  THEN AgentRefused("agents.init", "Err(AlreadyInitialized)")
  ELSE /\ agents' = [agents EXCEPT !.admin = Some(a)]
       /\ last' = Call("agents.init", 0, "ok", <<>>)
       /\ UNCHANGED <<storage, ledger, overflow_checks, streak, workers, history, logs, registry>>

register(signer, agent) ==
  IF agent_require_admin(signer) # "ok"
  THEN AgentRefused("agents.register", agent_require_admin(signer))
  ELSE /\ agents' = [agents EXCEPT !.agent[agent] = Some(AgentFlag),
                                   !.registered[agent] = TRUE]
       /\ last' = Call("agents.register", 0, "ok", <<agent>>)
       /\ UNCHANGED <<storage, ledger, overflow_checks, streak, workers, history, logs, registry>>

update_scopes(signer, agent, scopes) ==
  IF agent_require_admin(signer) # "ok"
  THEN AgentRefused("agents.update_scopes", agent_require_admin(signer))
  ELSE IF ~IsSome(agents.agent[agent])
  THEN AgentRefused("agents.update_scopes", "Err(Unauthorized)")
  ELSE /\ agents' = [agents EXCEPT !.agent[agent] = Some(AgentMask(scopes)),
                                   !.scopes[agent] = Some(scopes)]
       /\ last' = Call("agents.update_scopes", 0, "ok", <<agent>>)
       /\ UNCHANGED <<storage, ledger, overflow_checks, streak, workers, history, logs, registry>>

revoke_agent(signer, agent) ==
  IF agent_require_admin(signer) # "ok"
  THEN AgentRefused("agents.revoke_agent", agent_require_admin(signer))
  ELSE /\ agents' = [agents EXCEPT !.agent[agent] = None,
                                   !.registered[agent] = FALSE]
       /\ last' = Call("agents.revoke_agent", 0, "ok", <<agent>>)
       /\ UNCHANGED <<storage, ledger, overflow_checks, streak, workers, history, logs, registry>>

is_authorized(agent) == IsSome(agents.agent[agent])

\* has_scope: "true" or "false", or "panic" when the stored value is the bool
\* written by register, which does not convert to the u32 that is read
has_scope(agent, scope) ==
  IF ~IsSome(agents.agent[agent]) THEN "false"
  ELSE IF Unwrap(agents.agent[agent]).tag # "u32" THEN "panic"
  ELSE IF MaskHas(Unwrap(agents.agent[agent]).mask, scope) THEN "true"
  ELSE "false"

\* require_scope: the agent authenticates, then must hold the scope
require_scope(signer, agent, scope) ==
  AgentRefused("agents.require_scope",
    IF signer # agent THEN "Unauthorized"
    ELSE IF has_scope(agent, scope) = "true" THEN "ok"
    ELSE IF has_scope(agent, scope) = "false" THEN "agent missing required scope"
    ELSE "panic")

DoAgentInit == Ready /\ \E a \in AgentAdmins : agent_init(a)
DoRegister == Ready /\ \E signer \in AgentSigners, agent \in AgentAddrs : register(signer, agent)
DoUpdateScopes ==
  Ready /\ \E signer \in AgentSigners, agent \in AgentAddrs, scopes \in ScopeMasks :
    update_scopes(signer, agent, scopes)
DoRevokeAgent ==
  Ready /\ \E signer \in AgentSigners, agent \in AgentAddrs : revoke_agent(signer, agent)
DoRequireScope ==
  Ready /\ \E agent \in AgentAddrs, signer \in AgentAddrs, scope \in ScopeBits :
    require_scope(signer, agent, scope)

NextAgents ==
  \/ Return
  \/ DoAgentInit
  \/ DoRegister
  \/ DoUpdateScopes
  \/ DoRevokeAgent
  \/ DoRequireScope

SpecAgents == Init /\ [][NextAgents]_vars

\* ---------------------------------------------------------------------
\* Properties
\* ---------------------------------------------------------------------
PausedMsg == "Protocol is paused"
FailedMsg == "Subscription is in FAILED state"
LockRequiredMsg == "Renewal lock required"
LockExpiredMsg == "Renewal lock expired"
LockActiveMsg == "Renewal lock active"

\* The step is an invocation of entry point op for subscription s
Invokes(op, s) == last'.op = op /\ last'.sub = s
\* Nothing the contract stores, and not the ledger, changes in the step
NothingChanges == UNCHANGED <<storage, ledger>>

HasSub(s) == IsSome(subs[s])
StateOf(s) == Unwrap(subs[s]).state
\* A lock is stored for s and, in unbounded arithmetic, has not run out
LockUnexpired(s) ==
  /\ IsSome(locks[s])
  /\ ledger < Unwrap(locks[s]).locked_at + Unwrap(locks[s]).lock_timeout
\* An approval of s that consume_approval would accept for some amount
FreshApproval(s) ==
  \E a \in ApprovalIds, amount \in RenewAmounts : consume_approval(s, a, amount) = 0

\* C1: once an approval record has used = true, no operation sets it back
\* to false (so a second renew can never consume it).
C1_UsedNeverReset ==
  [][\A k \in ApprovalKeys :
       (IsSome(approvals[k]) /\ Unwrap(approvals[k]).used)
         => (IsSome(approvals'[k]) /\ Unwrap(approvals'[k]).used)]_vars

\* C2: a renew call on a Cancelled subscription leaves it Cancelled.
C2_CancelledStaysCancelled ==
  [][\A s \in SubIds :
       (HasSub(s) /\ StateOf(s) = "Cancelled" /\ Invokes("renew", s))
         => StateOf(s)' = "Cancelled"]_vars

\* C3: every change of a stored subscription's state is one of the steps
\* Active->Retrying, Retrying->Active, Retrying->Failed, Active->Cancelled,
\* Retrying->Cancelled.
StateMachineSteps ==
  { <<"Active", "Retrying">>, <<"Retrying", "Active">>, <<"Retrying", "Failed">>,
    <<"Active", "Cancelled">>, <<"Retrying", "Cancelled">> }
C3_StateMachine ==
  [][\A s \in SubIds :
       (HasSub(s) /\ HasSub(s)' /\ StateOf(s)' # StateOf(s))
         => <<StateOf(s), StateOf(s)'>> \in StateMachineSteps]_vars

\* The step is the call renew(s, ...) with outcome flag succeed, for some
\* arguments that pass every precondition, max_retries and cycle_id as given
AdmittedRenew(s, approval_id, max_retries, cycle_id, succeed) ==
  \E amount \in RenewAmounts, cooldown_ledgers \in Cooldowns :
    /\ RenewPanic(s, approval_id, amount, cooldown_ledgers, cycle_id) = "ok"
    /\ renew(s, approval_id, amount, max_retries, cooldown_ledgers, cycle_id, succeed)

\* C4 as stated: after max_retries consecutive failed renewals (max_retries
\* >= 1) the subscription is Failed.
C4_FailedAfterMaxRetries ==
  [][\A s \in SubIds : Invokes("renew", s) =>
       \A approval_id \in ApprovalIds, max_retries \in RetryLimits, cycle_id \in CycleIds :
         (/\ AdmittedRenew(s, approval_id, max_retries, cycle_id, FALSE)
          /\ max_retries >= 1
          /\ streak'[s] = max_retries)
           => StateOf(s)' = "Failed"]_vars

\* C4 amended: after max_retries + 1 consecutive failed renewals the
\* subscription is Failed.
C4_FailedAfterMaxRetriesPlusOne ==
  [][\A s \in SubIds : Invokes("renew", s) =>
       \A approval_id \in ApprovalIds, max_retries \in RetryLimits, cycle_id \in CycleIds :
         (/\ AdmittedRenew(s, approval_id, max_retries, cycle_id, FALSE)
          /\ streak'[s] >= max_retries + 1)
           => StateOf(s)' = "Failed"]_vars

\* Two consecutive failed renewals have left the subscription Failed
C4_Witness ==
  /\ last.op = "renew" /\ last.res = "false"
  /\ streak[last.sub] = MaxRetriesBound + 1
  /\ StateOf(last.sub) = "Failed"

\* C5: a renew that passes every precondition with succeed = false returns
\* false, adds exactly 1 to failure_count, sets last_attempt_ledger to the
\* current height, and leaves the state Failed if the new failure_count
\* exceeds max_retries and Retrying otherwise.
C5_FailedAttemptCommits ==
  [][\A s \in SubIds : Invokes("renew", s) =>
       \A approval_id \in ApprovalIds, max_retries \in RetryLimits, cycle_id \in CycleIds :
         AdmittedRenew(s, approval_id, max_retries, cycle_id, FALSE)
           => /\ last'.res = "false"
              /\ Unwrap(subs'[s]).failure_count = Unwrap(subs[s]).failure_count + 1
              /\ Unwrap(subs'[s]).last_attempt_ledger = ledger
              /\ StateOf(s)' = IF Unwrap(subs[s]).failure_count + 1 > max_retries
                               THEN "Failed" ELSE "Retrying"]_vars

\* A first failed attempt has left the subscription Failed (max_retries = 0)
C5_Witness ==
  /\ last.op = "renew" /\ last.res = "false"
  /\ StateOf(last.sub) = "Failed"
  /\ Unwrap(subs[last.sub]).failure_count = 1

\* C6 as stated: every renew call on a Failed subscription aborts with the
\* Failed-state error and changes nothing.
C6_FailedStateError ==
  [][\A s \in SubIds :
       (HasSub(s) /\ StateOf(s) = "Failed" /\ Invokes("renew", s))
         => (last'.res = FailedMsg /\ NothingChanges)]_vars

\* C6 amended: every renew call on a Failed subscription aborts and changes
\* nothing; the abort is the Failed-state error unless the protocol is
\* paused, and the pause error if it is.
C6_FailedRenewAborts ==
  [][\A s \in SubIds :
       (HasSub(s) /\ StateOf(s) = "Failed" /\ Invokes("renew", s))
         => /\ last'.res = (IF is_paused THEN PausedMsg ELSE FailedMsg)
            /\ NothingChanges]_vars

\* A renew was refused for the Failed state although a live lock and an
\* acceptable approval were in place
C6_Witness ==
  /\ last.op = "renew" /\ last.res = FailedMsg
  /\ LockUnexpired(last.sub)
  /\ FreshApproval(last.sub)

\* C7: a renew that passes every precondition with succeed = true returns
\* true and leaves state = Active, failure_count = 0, last_attempt_ledger =
\* current height, the cycle marker equal to cycle_id and the approval used.
C7_SuccessfulRenewal ==
  [][\A s \in SubIds : Invokes("renew", s) =>
       \A approval_id \in ApprovalIds, max_retries \in RetryLimits, cycle_id \in CycleIds :
         AdmittedRenew(s, approval_id, max_retries, cycle_id, TRUE)
           => /\ last'.res = "true"
              /\ StateOf(s)' = "Active"
              /\ Unwrap(subs'[s]).failure_count = 0
              /\ Unwrap(subs'[s]).last_attempt_ledger = ledger
              /\ cycles'[s] = Some(cycle_id)
              /\ Unwrap(approvals'[<<s, approval_id>>]).used]_vars

\* A renew returned true for a subscription that was Retrying
C7_Witness ==
  /\ last.op = "renew" /\ last.res = "true"
  /\ \E i \in DOMAIN last.ev : last.ev[i] = "LifecycleTimestampUpdated:activated"

\* C8: after every renew that returns, no lock is stored for its sub_id,
\* and no renew for that id is admitted before a new lock is acquired.
C8_LockReleasedAfterRenew ==
  \A s \in SubIds :
    (last.op = "renew" /\ last.sub = s /\ Returned(last))
      => /\ get_renewal_lock(s) = None
         /\ \A approval_id \in ApprovalIds, amount \in RenewAmounts,
               cooldown_ledgers \in Cooldowns, cycle_id \in CycleIds :
              RenewPanic(s, approval_id, amount, cooldown_ledgers, cycle_id) # "ok"

\* A renew returned false
C8_Witness ==
  /\ last.op = "renew" /\ last.res = "false"
  /\ get_renewal_lock(last.sub) = None

\* The checks renew makes before it looks at the lock all pass
ReachesLockCheck(s) == ~is_paused /\ HasSub(s) /\ ~IsFailed(Unwrap(subs[s]))
\* A lock is stored for s and has run out
LockRunOut(s) ==
  /\ IsSome(locks[s])
  /\ ledger >= Unwrap(locks[s]).locked_at + Unwrap(locks[s]).lock_timeout

\* C9 as stated: a renew with no stored lock aborts with 'Renewal lock
\* required', one with a lock that has run out aborts with 'Renewal lock
\* expired', and neither changes anything.
C9_LockErrors ==
  [][\A s \in SubIds : Invokes("renew", s) =>
       /\ ~IsSome(locks[s]) => (last'.res = LockRequiredMsg /\ NothingChanges)
       /\ LockRunOut(s) => (last'.res = LockExpiredMsg /\ NothingChanges)]_vars

\* C9 amended: a renew returns only while an unexpired lock is stored; with
\* no lock, or with a lock that has run out, it aborts and changes nothing,
\* and the abort is 'Renewal lock required' / 'Renewal lock expired' once
\* the pause, subscription-lookup and Failed-state checks have passed.
C9_RenewNeedsUnexpiredLock ==
  [][\A s \in SubIds : Invokes("renew", s) =>
       /\ Returned(last') => LockUnexpired(s)
       /\ ~IsSome(locks[s]) =>
            /\ ~Returned(last') /\ NothingChanges
            /\ ReachesLockCheck(s) => last'.res = LockRequiredMsg
       /\ LockRunOut(s) =>
            /\ ~Returned(last') /\ NothingChanges
            /\ ReachesLockCheck(s) => last'.res = LockExpiredMsg]_vars

\* A renew was refused because the stored lock had run out
C9_Witness ==
  /\ last.op = "renew" /\ last.res = LockExpiredMsg
  /\ LockRunOut(last.sub)

\* C10: while an unexpired lock is stored, every acquire_renewal_lock for
\* that sub_id aborts with LockActive and leaves the stored lock unchanged.
C10_SecondAcquireRefused ==
  [][\A s \in SubIds :
       (LockUnexpired(s) /\ Invokes("acquire_renewal_lock", s))
         => (last'.res = LockActiveMsg /\ locks' = locks)]_vars

\* A step of renew(s, ...) or acquire_renewal_lock(s, ...) is examined for
\* every argument list that makes that step
DuplicateMsg == "Duplicate renewal for cycle"
CooldownMsg == "Cooldown period active"
ApprovalMsg == "Invalid or expired approval"
IntegrityMsg == "Subscription integrity violation: parameters tampered"

\* The lock checks of renew pass
LockChecksPass(s) ==
  /\ IsSome(locks[s])
  /\ ~LockSumTraps(Unwrap(locks[s]))
  /\ ledger < LockExpiry(Unwrap(locks[s]))
\* The checks renew makes before the cooldown check all pass
ReachesCooldownCheck(s, cycle_id) ==
  /\ ReachesLockCheck(s)
  /\ LockChecksPass(s)
  /\ cycles[s] # Some(cycle_id)
\* The checks renew makes before it consumes the approval all pass
ReachesApprovalCheck(s, cooldown_ledgers, cycle_id) ==
  /\ ReachesCooldownCheck(s, cycle_id)
  /\ ~CooldownSumTraps(Unwrap(subs[s]), cooldown_ledgers)
  /\ ~CooldownActive(Unwrap(subs[s]), cooldown_ledgers)

\* C11: a stored lock acquired at height H with timeout T can be re-acquired
\* at every height h >= H + T while the protocol is not paused: the call
\* succeeds and overwrites the lock with locked_at = h and the new timeout.
C11_ExpiredLockReacquired ==
  [][\A s \in SubIds :
       (LockRunOut(s) /\ ~is_paused /\ Invokes("acquire_renewal_lock", s))
         => \A t \in LockTimeouts :
              acquire_renewal_lock(s, t)
                => /\ last'.res = "ok"
                   /\ locks'[s] = Some([locked_at |-> ledger, lock_timeout |-> t])]_vars

\* A lock that had run out was replaced (in a build that traps on overflow,
\* so that the sum H + T was the true one)
C11_Witness ==
  /\ overflow_checks
  /\ last.op = "acquire_renewal_lock" /\ last.res = "ok"
  /\ \E i \in DOMAIN last.ev : last.ev[i] = "RenewalLockExpired"

\* C13: a renew whose cycle_id equals the stored cycle marker (the cycle of
\* the last successful renewal) always aborts and changes nothing, and the
\* abort is DuplicateCycle once the pause, Failed-state and lock checks pass.
C13_DuplicateCycleAborts ==
  [][\A s \in SubIds : (Invokes("renew", s) /\ IsSome(cycles[s])) =>
       \A cycle_id \in CycleIds : cycles[s] = Some(cycle_id) =>
         \/ /\ ~Returned(last')
            /\ NothingChanges
            /\ (ReachesLockCheck(s) /\ LockChecksPass(s)) => last'.res = DuplicateMsg
         \/ \A approval_id \in ApprovalIds, amount \in RenewAmounts,
               max_retries \in RetryLimits, cooldown_ledgers \in Cooldowns,
               succeed \in BOOLEAN :
              ~renew(s, approval_id, amount, max_retries, cooldown_ledgers, cycle_id, succeed)]_vars

\* A renew was refused as a duplicate although a live lock and an acceptable
\* approval were in place
C13_Witness ==
  /\ last.op = "renew" /\ last.res = DuplicateMsg
  /\ LockUnexpired(last.sub)
  /\ FreshApproval(last.sub)

\* C14: the cycle marker changes only in a renew that returns true, and then
\* equals that call's cycle_id; a renew that returns false leaves it
\* unchanged, so the cycle guard does not reject the same cycle_id afterwards.
C14_MarkerOnlyOnSuccess ==
  [][\A s \in SubIds :
       /\ cycles'[s] # cycles[s] => (Invokes("renew", s) /\ last'.res = "true")
       /\ (Invokes("renew", s) /\ last'.res = "true") =>
            \A approval_id \in ApprovalIds, amount \in RenewAmounts,
               max_retries \in RetryLimits, cooldown_ledgers \in Cooldowns,
               cycle_id \in CycleIds, succeed \in BOOLEAN :
              renew(s, approval_id, amount, max_retries, cooldown_ledgers, cycle_id, succeed)
                => cycles'[s] = Some(cycle_id)
       /\ (Invokes("renew", s) /\ last'.res = "false") =>
            /\ cycles'[s] = cycles[s]
            /\ \A approval_id \in ApprovalIds, amount \in RenewAmounts,
                  max_retries \in RetryLimits, cooldown_ledgers \in Cooldowns,
                  cycle_id \in CycleIds, succeed \in BOOLEAN :
                 renew(s, approval_id, amount, max_retries, cooldown_ledgers, cycle_id, succeed)
                   => cycles'[s] # Some(cycle_id)]_vars

\* Two failed attempts in a row were committed and no marker was written
C14_Witness ==
  /\ last.op = "renew" /\ last.res = "false"
  /\ streak[last.sub] = 2
  /\ cycles[last.sub] = None

\* C17: a renew that reaches consume_approval with an approval that is
\* used, missing, or too small for the amount aborts with the approval error
\* and changes nothing, for every amount.
C17_BadApprovalAborts ==
  [][\A s \in SubIds : (Invokes("renew", s) /\ ReachesLockCheck(s) /\ LockChecksPass(s)) =>
       \/ (last'.res = ApprovalMsg /\ NothingChanges)
       \/ \A cooldown_ledgers \in Cooldowns, cycle_id \in CycleIds :
            ReachesApprovalCheck(s, cooldown_ledgers, cycle_id) =>
              \A approval_id \in ApprovalIds, amount \in RenewAmounts :
                (IF IsSome(approvals[<<s, approval_id>>])
                 THEN \/ Unwrap(approvals[<<s, approval_id>>]).used
                      \/ amount > Unwrap(approvals[<<s, approval_id>>]).max_spend
                 ELSE TRUE) =>
                  \A max_retries \in RetryLimits, succeed \in BOOLEAN :
                    ~renew(s, approval_id, amount, max_retries, cooldown_ledgers,
                           cycle_id, succeed)]_vars

\* A renew was refused for its approval, which is used but not expired
C17_Witness ==
  /\ last.op = "renew" /\ last.res = ApprovalMsg
  /\ \E a \in ApprovalIds :
       /\ IsSome(approvals[<<last.sub, a>>])
       /\ Unwrap(approvals[<<last.sub, a>>]).used
       /\ ledger <= Unwrap(approvals[<<last.sub, a>>]).expires_at

\* C18 as stated: for every approval record and amount, past expires_at
\* consumption fails with reason Expired (1); at expires_at it does not.
C18_ExpiredReason ==
  \A k \in ApprovalKeys, amount \in RenewAmounts :
    IsSome(approvals[k]) =>
      /\ ledger > Unwrap(approvals[k]).expires_at => consume_approval(k[1], k[2], amount) = 1
      /\ ledger = Unwrap(approvals[k]).expires_at => consume_approval(k[1], k[2], amount) # 1

\* C18 amended: past expires_at consumption of an unused approval fails with
\* reason Expired and that of a used one with reason Used, never with
\* AmountExceeded; at expires_at an unused approval is accepted when the
\* amount fits and fails with AmountExceeded when it does not.
C18_ExpiredBeforeAmount ==
  \A k \in ApprovalKeys, amount \in RenewAmounts :
    IsSome(approvals[k]) =>
      /\ ledger > Unwrap(approvals[k]).expires_at
           => consume_approval(k[1], k[2], amount)
                = (IF Unwrap(approvals[k]).used THEN 2 ELSE 1)
      /\ (ledger = Unwrap(approvals[k]).expires_at /\ ~Unwrap(approvals[k]).used)
           => consume_approval(k[1], k[2], amount)
                = (IF amount > Unwrap(approvals[k]).max_spend THEN 3 ELSE 0)

\* A renew was refused for an unused approval that had expired
C18_Witness ==
  /\ last.op = "renew" /\ last.res = ApprovalMsg
  /\ \E a \in ApprovalIds :
       /\ IsSome(approvals[<<last.sub, a>>])
       /\ ~Unwrap(approvals[<<last.sub, a>>]).used
       /\ ledger > Unwrap(approvals[<<last.sub, a>>]).expires_at

\* C19: a renew that has passed the pause, Failed-state, lock and cycle
\* checks aborts with the cooldown error exactly when failure_count > 0 and
\* current height < last_attempt_ledger + cooldown_ledgers.
C19_CooldownExactly ==
  [][\A s \in SubIds : (Invokes("renew", s) /\ ReachesLockCheck(s) /\ LockChecksPass(s)) =>
       \A cycle_id \in CycleIds : ReachesCooldownCheck(s, cycle_id) =>
         \A approval_id \in ApprovalIds, amount \in RenewAmounts, max_retries \in RetryLimits,
            cooldown_ledgers \in Cooldowns, succeed \in BOOLEAN :
           renew(s, approval_id, amount, max_retries, cooldown_ledgers, cycle_id, succeed)
             => (last'.res = CooldownMsg
                  <=> /\ Unwrap(subs[s]).failure_count > 0
                      /\ ledger < Unwrap(subs[s]).last_attempt_ledger + cooldown_ledgers)]_vars

\* C20: while the paused flag is true every renew and every
\* acquire_renewal_lock aborts with 'Protocol is paused' and changes nothing;
\* once set_paused(false) has returned, neither call is refused for the pause.
C20_PausedBlocks ==
  [][/\ \A s \in SubIds :
          (paused = Some(TRUE)
             /\ (Invokes("renew", s) \/ Invokes("acquire_renewal_lock", s)))
            => (last'.res = PausedMsg /\ NothingChanges)
     /\ (last'.op = "set_paused" /\ Returned(last') /\ paused' = Some(FALSE))
          => \A s \in SubIds :
               /\ ~is_paused'
               /\ \A approval_id \in ApprovalIds, amount \in RenewAmounts,
                     cooldown_ledgers \in Cooldowns, cycle_id \in CycleIds :
                    RenewPanic(s, approval_id, amount, cooldown_ledgers, cycle_id)' # PausedMsg]_vars

\* A renew was refused for the pause although a live lock and an acceptable
\* approval were in place
C20_Witness ==
  /\ last.op = "renew" /\ last.res = PausedMsg
  /\ LockUnexpired(last.sub)
  /\ FreshApproval(last.sub)

\* C12: in every interleaving of two workers that each call
\* acquire_renewal_lock and then renew for the same subscription, approval and
\* billing cycle, at most one renew returns (a renew that returns has
\* consumed the approval it presented), so the approval is consumed at most
\* once, and at most one renew returns true for the cycle.
C12_AtMostOnce ==
  /\ Cardinality({w \in DOMAIN workers : workers[w].res = "true"}) <= 1
  /\ Cardinality({w \in DOMAIN workers : workers[w].res \in {"true", "false"}}) <= 1
  /\ \A w \in DOMAIN workers :
       workers[w].res \in {"true", "false"}
         => Unwrap(approvals[<<WorkerSub, workers[w].approval_id>>]).used

\* Both workers are done: one renewed the cycle, the other was refused as a
\* duplicate
C12_Witness ==
  /\ workers # <<>>
  /\ \E v, w \in Workers :
       /\ workers[v].pc = "done" /\ workers[v].res = "true"
       /\ workers[w].pc = "done" /\ workers[w].res = DuplicateMsg

\* The digested fields of the stored subscription no longer match its digest
Tampered(s) ==
  /\ IsSome(subs[s])
  /\ Unwrap(subs[s]).integrity_hash
       # IntegrityHash(Unwrap(subs[s]).merchant, Unwrap(subs[s]).amount,
                       Unwrap(subs[s]).frequency, Unwrap(subs[s]).spending_cap)

\* C15: once a digested field of a stored subscription was changed without
\* updating the digest, every renew for it that reaches the integrity check
\* aborts with the integrity violation, whatever its other arguments and for
\* succeed = true as well as false.
C15_TamperedRenewAborts ==
  [][\A s \in SubIds :
       (Invokes("renew", s) /\ Tampered(s) /\ ReachesLockCheck(s) /\ LockChecksPass(s)) =>
         \/ last'.res = IntegrityMsg
         \/ \A cooldown_ledgers \in Cooldowns, cycle_id \in CycleIds :
              ReachesApprovalCheck(s, cooldown_ledgers, cycle_id) =>
                \A approval_id \in ApprovalIds, amount \in RenewAmounts :
                  consume_approval(s, approval_id, amount) = 0 =>
                    \A max_retries \in RetryLimits, succeed \in BOOLEAN :
                      ~renew(s, approval_id, amount, max_retries, cooldown_ledgers,
                             cycle_id, succeed)]_vars

\* A renew of a subscription whose amount was tampered with was refused at
\* the integrity check
C15_Witness ==
  /\ last.op = "renew" /\ last.res = IntegrityMsg
  /\ Tampered(last.sub)
  /\ Unwrap(subs[last.sub]).amount \notin SubAmounts

C21_InitOnce ==
  [][/\ last'.op = "init" =>
          IF IsSome(admin)
          THEN last'.res = "Already initialized" /\ NothingChanges
          ELSE Returned(last') /\ IsSome(admin') /\ paused' = Some(FALSE)
     /\ IsSome(admin) => admin' = admin]_vars

\* A second init was refused while the protocol was paused
C21_Witness ==
  /\ last.op = "init" /\ last.res = "Already initialized"
  /\ paused = Some(TRUE)

\* C22: the pause flag changes only in a set_paused call signed by the
\* stored admin; set_paused before init aborts with 'Contract not
\* initialized', set_paused signed by anyone else aborts, neither stores
\* anything, and is_paused is false until a set_paused(true) has committed.
C22_PauseOnlyByAdmin ==
  [][/\ is_paused' # is_paused => (last'.op = "set_paused" /\ Returned(last'))
     /\ (is_paused' /\ ~is_paused) => last'.ev = <<"PauseToggled:true">>
     /\ ~IsSome(admin) => ~is_paused
     /\ last'.op = "set_paused" =>
          \A signer \in Signers, p \in BOOLEAN :
            set_paused(signer, p) =>
              /\ ~IsSome(admin) =>
                   (last'.res = "Contract not initialized" /\ NothingChanges)
              /\ (IsSome(admin) /\ admin # Some(signer)) =>
                   (~Returned(last') /\ NothingChanges)
              /\ Returned(last') => (admin = Some(signer) /\ is_paused' = p)]_vars

\* A set_paused not signed by the admin was refused
C22_Witness ==
  /\ last.op = "set_paused" /\ last.res = "Unauthorized"
  /\ IsSome(admin)

\* C23: the failure_count of an existing subscription is lowered only by a
\* renew that returns true.
C23_CountLoweredOnlyByRenewal ==
  [][\A s \in SubIds :
       (/\ HasSub(s) /\ HasSub(s)'
        /\ Unwrap(subs'[s]).failure_count < Unwrap(subs[s]).failure_count)
         => (Invokes("renew", s) /\ last'.res = "true")]_vars

\* C24: created_at never changes once init_sub has set it, canceled_at never
\* changes once it is non-zero, and canceled_at is written only by cancel_sub.
C24_WriteOnceTimestamps ==
  [][\A s \in SubIds :
       IsSome(lifecycle[s]) =>
         /\ IsSome(lifecycle'[s])
         /\ Unwrap(lifecycle'[s]).created_at = Unwrap(lifecycle[s]).created_at
         /\ Unwrap(lifecycle[s]).canceled_at # 0
              => Unwrap(lifecycle'[s]).canceled_at = Unwrap(lifecycle[s]).canceled_at
         /\ Unwrap(lifecycle'[s]).canceled_at # Unwrap(lifecycle[s]).canceled_at
              => Invokes("cancel_sub", s)]_vars

\* C25: cancel_sub aborts with 'Subscription not found' when no record
\* exists and aborts when the state is already Cancelled, changing nothing;
\* otherwise, signed by the owner, it sets state = Cancelled and canceled_at =
\* now and leaves failure_count, last_attempt_ledger, the approvals, the cycle
\* marker and the lock unchanged.
C25_CancelSub ==
  [][\A s \in SubIds : Invokes("cancel_sub", s) =>
       \A signer \in Signers :
         cancel_sub(signer, s) =>
           IF ~HasSub(s)
           THEN last'.res = "Subscription not found" /\ NothingChanges
           ELSE IF StateOf(s) = "Cancelled"
           THEN ~Returned(last') /\ NothingChanges
           ELSE signer = Unwrap(subs[s]).owner =>
                  /\ Returned(last')
                  /\ StateOf(s)' = "Cancelled"
                  /\ Unwrap(lifecycle'[s]).canceled_at = LedgerTimestamp
                  /\ Unwrap(subs'[s]).failure_count = Unwrap(subs[s]).failure_count
                  /\ Unwrap(subs'[s]).last_attempt_ledger
                       = Unwrap(subs[s]).last_attempt_ledger
                  /\ UNCHANGED <<approvals, cycles, locks>>]_vars

\* A Retrying subscription with a stored lock was cancelled
C25_Witness ==
  /\ last.op = "cancel_sub" /\ last.res = "ok"
  /\ Unwrap(subs[last.sub]).failure_count > 0
  /\ IsSome(locks[last.sub])

\* The entry points that are invoked for one subscription id
SubOps ==
  { "init_sub", "approve_renewal", "acquire_renewal_lock", "release_renewal_lock",
    "renew", "cancel_sub" }

\* C26: an operation invoked for subscription id a leaves the record, the
\* approvals, the cycle marker, the lock and the lifecycle timestamps of
\* every other id b unchanged.
C26_OtherSubsUntouched ==
  [][\A a \in DOMAIN subs, b \in DOMAIN subs :
       (a # b /\ last'.op \in SubOps /\ last'.sub = a)
         => /\ subs'[b] = subs[b]
            /\ lifecycle'[b] = lifecycle[b]
            /\ cycles'[b] = cycles[b]
            /\ locks'[b] = locks[b]
            /\ \A i \in ApprovalIds : approvals'[<<b, i>>] = approvals[<<b, i>>]]_vars

\* A renewal of one subscription returned while the other one was Retrying
\* and held a lock
C26_Witness ==
  /\ last.op = "renew" /\ last.res = "true"
  /\ \E b \in DOMAIN subs :
       /\ b # last.sub
       /\ IsSome(subs[b]) /\ Unwrap(subs[b]).state = "Retrying"
       /\ IsSome(locks[b])

\* acquire_renewal_lock for s would succeed at the current height
AcquireSucceeds(s) ==
  /\ ~is_paused
  /\ IsSome(locks[s]) => /\ ~LockSumTraps(Unwrap(locks[s]))
                         /\ ~LockStillActive(Unwrap(locks[s]))

\* C27: while ledgers keep closing and the protocol is not paused, every
\* stored lock that is never released is eventually followed by a height at
\* which acquire_renewal_lock for that sub_id succeeds.
C27_StuckLockHeals ==
  \A s \in SubIds : IsSome(locks[s]) ~> AcquireSucceeds(s)

\* C28: record_log of the logging contract adds exactly one entry at the end
\* of the log of its sub_id, keeps the earlier entries and their order, and
\* leaves the logs of other ids unchanged; get_logs returns the stored
\* entries in that order and the empty list for an id never logged.
C28_AppendOnly ==
  [][\A s \in LogIds :
       /\ IF last'.op = "logging.record_log" /\ last'.sub = s
          THEN /\ Len(get_logs(s)') = Len(get_logs(s)) + 1
               /\ SubSeq(get_logs(s)', 1, Len(get_logs(s))) = get_logs(s)
               /\ get_logs(s)'[Len(get_logs(s)')].sub_id = s
               /\ get_logs(s)'[Len(get_logs(s)')].timestamp = LedgerTimestamp
          ELSE get_logs(s)' = get_logs(s)
       /\ (last'.op = "logging.get_logs" /\ last'.sub = s)
            => last'.ev = (IF IsSome(logs[s]) THEN Unwrap(logs[s]) ELSE <<>>)
       /\ ~IsSome(logs[s]) => get_logs(s) = <<>>]_vars

\* get_logs returned two entries with different events, recorded in that
\* order, while the other id has a log of its own
C28_Witness ==
  /\ last.op = "logging.get_logs"
  /\ Len(last.ev) = 2
  /\ last.ev[1].event = "Renewal" /\ last.ev[2].event = "Failure"
  /\ \E b \in LogIds : b # last.sub /\ IsSome(logs[b])

\* C29: a successful create_subscription returns an id that no earlier create
\* returned, stores it with is_active = true and appends it to the caller's
\* list only; an id that cancel_subscription has cancelled stays inactive and
\* every later update_subscription or cancel_subscription for it aborts
\* without changing the registry.
C29_UniqueIdsAndFinalCancel ==
  [][/\ (last'.op = "registry.create_subscription" /\ Returned(last'))
          => /\ last'.ev[1] \notin registry.returned
             /\ \A u \in Users : \A i \in 1..Len(get_user_subscriptions(u)) :
                  get_user_subscriptions(u)[i] # last'.ev[1]
             /\ IsSome(registry'.subscription[last'.ev[1]])
             /\ Unwrap(registry'.subscription[last'.ev[1]]).is_active
             /\ \A u \in Users :
                  get_user_subscriptions(u)' =
                    IF u = last'.ev[2]
                    THEN Append(get_user_subscriptions(u), last'.ev[1])
                    ELSE get_user_subscriptions(u)
     /\ \A id \in registry.cancelled :
          /\ IsSome(get_subscription(id)) /\ ~Unwrap(get_subscription(id)).is_active
          /\ IsSome(get_subscription(id)') /\ ~Unwrap(get_subscription(id)').is_active
     /\ (/\ last'.op \in {"registry.update_subscription", "registry.cancel_subscription"}
         /\ last'.ev[1] \in registry.cancelled)
          => (~Returned(last') /\ registry' = registry)]_vars

\* Both users hold ids, one id is cancelled and an update of a cancelled id
\* has just been refused
C29_Witness ==
  /\ last.op = "registry.update_subscription" /\ last.res = "subscription is not active"
  /\ registry.cancelled # {}
  /\ \A u \in Users : Len(get_user_subscriptions(u)) >= 1
  /\ \E u \in Users : Len(get_user_subscriptions(u)) >= 2

\* has_scope and is_authorized never say yes for an agent that is not
\* registered (registered by the admin and not revoked since) or for a bit
\* that is not in the mask last stored by update_scopes; after revoke_agent
\* both say no
ScopesSound ==
  /\ \A a \in AgentAddrs, b \in ScopeBits :
       has_scope(a, b) = "true"
         => /\ agents.registered[a]
            /\ IsSome(agents.scopes[a])
            /\ (Unwrap(agents.scopes[a]) \div b) % 2 = 1
  /\ (last'.op = "agents.revoke_agent" /\ Returned(last'))
       => \A a \in AgentAddrs :
            last'.ev = <<a>>
              => /\ ~is_authorized(a)'
                 /\ \A b \in ScopeBits : has_scope(a, b)' = "false"

\* C30 as stated: has_scope is sound, revocation clears both answers, and
\* every update_scopes for an unregistered agent returns Unauthorized and
\* stores nothing.
C30_AgentScopes ==
  [][/\ ScopesSound
     /\ last'.op = "agents.update_scopes" =>
          \A signer \in AgentSigners, agent \in AgentAddrs, scopes \in ScopeMasks :
            (update_scopes(signer, agent, scopes) /\ ~agents.registered[agent])
              => (last'.res = "Err(Unauthorized)" /\ agents' = agents)]_vars

\* C30 amended: update_scopes for an unregistered agent stores nothing, and
\* returns Unauthorized when the registry is initialised and the call is
\* signed by its admin (NotInitialized before init; the call fails when the
\* admin's signature is missing).
C30_AgentScopesByAdmin ==
  [][/\ ScopesSound
     /\ last'.op = "agents.update_scopes" =>
          \A signer \in AgentSigners, agent \in AgentAddrs, scopes \in ScopeMasks :
            (update_scopes(signer, agent, scopes) /\ ~agents.registered[agent])
              => /\ agents' = agents
                 /\ last'.res = (IF ~IsSome(agents.admin) THEN "Err(NotInitialized)"
                                 ELSE IF agents.admin # Some(signer) THEN "Unauthorized"
                                 ELSE "Err(Unauthorized)")]_vars

\* The admin's update_scopes for a revoked agent was refused; the other
\* agent holds the Renewals scope
C30_Witness ==
  /\ last.op = "agents.update_scopes" /\ last.res = "Err(Unauthorized)"
  /\ \E a, b \in AgentAddrs :
       /\ ~agents.registered[a] /\ IsSome(agents.scopes[a])
       /\ has_scope(b, 1) = "true"

\* The observed invocation published event e
Emitted(call, e) == \E i \in 1..Len(call.ev) : call.ev[i] = e
\* The observed invocation published a state-transition event
EmittedTransition(call) ==
  \E st \in {"Active", "Retrying", "Failed", "Cancelled"} :
    Emitted(call, "StateTransition:" \o st)

\* C31: a renew that returns true for a subscription in state Retrying
\* publishes a state-transition event with new_state = Active besides the
\* success event and the lifecycle events renewed and activated; a renew that
\* returns true from state Active publishes no state-transition event.
C31_RecoveryEvents ==
  [][\A s \in SubIds :
       (Invokes("renew", s) /\ last'.res = "true" /\ HasSub(s)) =>
         /\ StateOf(s) = "Retrying" =>
              /\ Emitted(last', "StateTransition:Active")
              /\ Emitted(last', "RenewalSuccess")
              /\ Emitted(last', "LifecycleTimestampUpdated:renewed")
              /\ Emitted(last', "LifecycleTimestampUpdated:activated")
         /\ StateOf(s) = "Active" => ~EmittedTransition(last')]_vars

\* The approval records of s that differ between the two states of the step
ApprovalsChanged(s) ==
  {k \in DOMAIN approvals : k[1] = s /\ approvals'[k] # approvals[k]}

\* C32: every committed renew for s at height h with amount a consumed
\* exactly one approval record of s, which was unused before the call and has
\* h <= expires_at and a <= max_spend; unused approval records are created
\* only by approve_renewal calls authenticated as the stored owner of the
\* subscription; so the committed renews of a subscription never outnumber
\* its committed approve_renewal calls.
C32_RenewalsBackedByApprovals ==
  [][\A s \in SubIds :
       /\ history'.renewed[s] <= history'.approved[s]
       /\ (Invokes("renew", s) /\ Returned(last')) =>
            /\ Cardinality(ApprovalsChanged(s)) = 1
            /\ \A k \in ApprovalsChanged(s) :
                 /\ IsSome(approvals[k]) /\ ~Unwrap(approvals[k]).used
                 /\ approvals'[k] = Some([Unwrap(approvals[k]) EXCEPT !.used = TRUE])
                 /\ ledger <= Unwrap(approvals[k]).expires_at
                 /\ \A amount \in RenewAmounts :
                      (\E cycle_id \in CycleIds, succeed \in BOOLEAN :
                         renew(s, k[2], amount, MaxRetriesBound, 0, cycle_id, succeed))
                        => amount <= Unwrap(approvals[k]).max_spend
       /\ (\E k \in ApprovalsChanged(s) : ~Unwrap(approvals'[k]).used) =>
            /\ Invokes("approve_renewal", s) /\ Returned(last')
            /\ Cardinality(ApprovalsChanged(s)) = 1
            /\ HasSub(s)
            /\ \A signer \in Owners :
                 (\E approval_id \in TallyApprovalIds, max_spend \in MaxSpends,
                     expires_at \in ExpiryHeights :
                    approve_renewal(signer, s, approval_id, max_spend, expires_at))
                   => signer = Unwrap(subs[s]).owner]_vars

\* Two approvals were granted and the second renewal has just consumed the
\* second of them
C32_Witness ==
  /\ last.op = "renew" /\ Returned(last)
  /\ history.renewed[last.sub] = 2
  /\ history.approved[last.sub] = 2
  /\ \A k \in DOMAIN approvals : IsSome(approvals[k]) /\ Unwrap(approvals[k]).used

\* C33: once a subscription record exists for a sub_id, no operation changes
\* its owner or its economic parameters; init_sub called again for the same
\* sub_id does not replace them.
C33_OwnerNeverChanges ==
  [][\A s \in SubIds :
       HasSub(s) =>
         /\ HasSub(s)'
         /\ Unwrap(subs'[s]).owner = Unwrap(subs[s]).owner
         /\ Unwrap(subs'[s]).merchant = Unwrap(subs[s]).merchant
         /\ Unwrap(subs'[s]).amount = Unwrap(subs[s]).amount
         /\ Unwrap(subs'[s]).frequency = Unwrap(subs[s]).frequency
         /\ Unwrap(subs'[s]).spending_cap = Unwrap(subs[s]).spending_cap]_vars

\* C34: while a worker holds an unexpired lock that it acquired for a sub_id,
\* no other caller removes that lock with release_renewal_lock or commits a
\* renew for the sub_id under it.
C34_LockBelongsToAcquirer ==
  [][\A s \in SubIds :
       (/\ IsSome(history.holder[s])
        /\ LockUnexpired(s)
        /\ last'.op \in {"release_renewal_lock", "renew"}
        /\ last'.sub = s
        /\ Returned(last'))
         => history'.caller = history.holder[s]]_vars

\* C35: no cycle_id is applied twice to a subscription: once a renew with
\* cycle_id c has returned true, no later renew with the same c returns true,
\* whatever was renewed in between.
C35_CycleAppliedOnce ==
  [][\A s \in SubIds :
       (Invokes("renew", s) /\ last'.res = "true") =>
         \A cycle_id \in history.applied[s] :
           \A approval_id \in ApprovalIds, amount \in SubAmounts :
             ~renew(s, approval_id, amount, MaxRetriesBound, 0, cycle_id, TRUE)]_vars

\* C36: when every renew of a subscription is called with the same
\* max_retries M, its failure_count is at most M + 1 in every reachable state.
C36_FailureCountBounded ==
  \A s \in SubIds :
    HasSub(s) => Unwrap(subs[s]).failure_count <= FixedRetries + 1

\* C37: in every reachable state a subscription in state Active has
\* failure_count = 0, and a subscription in state Retrying or Failed has
\* failure_count >= 1.
C37_CountMatchesState ==
  \A s \in SubIds :
    HasSub(s) =>
      /\ StateOf(s) = "Active" => Unwrap(subs[s]).failure_count = 0
      /\ StateOf(s) \in {"Retrying", "Failed"} => Unwrap(subs[s]).failure_count >= 1

\* A renew has just brought a subscription back from Retrying to Active
C37_Witness ==
  /\ last.op = "renew" /\ last.res = "true"
  /\ Emitted(last, "LifecycleTimestampUpdated:activated")
  /\ HasSub(last.sub)
  /\ StateOf(last.sub) = "Active"
  /\ Unwrap(subs[last.sub]).failure_count = 0

\* C38: in every state reached through the contract's entry points alone,
\* the integrity_hash of each stored subscription is the digest of its current
\* merchant, amount, frequency and spending_cap, and no renew has aborted
\* with the integrity violation.
C38_DigestMatchesRecord ==
  /\ \A s \in SubIds :
       HasSub(s) =>
         Unwrap(subs[s]).integrity_hash =
           <<"sha256", Unwrap(subs[s]).merchant, Unwrap(subs[s]).amount,
             Unwrap(subs[s]).frequency, Unwrap(subs[s]).spending_cap>>
  /\ last.res # IntegrityMsg

\* A renew has passed the integrity check of a stored subscription and
\* committed
C38_Witness ==
  /\ last.op = "renew" /\ last.res \in {"true", "false"}
  /\ HasSub(last.sub)
  /\ Unwrap(subs[last.sub]).integrity_hash =
       <<"sha256", "shop", 5, 30, 10>>

\* C39: the amount of every committed renew is at most the spending_cap
\* stored for the subscription.
C39_ChargeWithinCap ==
  [][\A s \in SubIds :
       (Invokes("renew", s) /\ Returned(last') /\ HasSub(s)) =>
         \A amount \in RenewAmounts :
           (\E approval_id \in ApprovalIds, cycle_id \in CycleIds, succeed \in BOOLEAN :
              renew(s, approval_id, amount, MaxRetriesBound, 0, cycle_id, succeed))
             => amount <= Unwrap(subs[s]).spending_cap]_vars

\* C40: whenever acquire_renewal_lock or renew adds locked_at + lock_timeout
\* of the stored lock, or renew adds last_attempt_ledger + cooldown_ledgers,
\* the sum fits in the contract's unsigned word, so that no call ends in an
\* arithmetic overflow and the comparisons agree with unbounded arithmetic.
C40_SumsFit ==
  [][\A s \in SubIds :
       /\ (Invokes("acquire_renewal_lock", s) /\ ~is_paused /\ IsSome(locks[s]))
            => Unwrap(locks[s]).locked_at + Unwrap(locks[s]).lock_timeout <= WordMax
       /\ (Invokes("renew", s) /\ ReachesLockCheck(s) /\ IsSome(locks[s]))
            => Unwrap(locks[s]).locked_at + Unwrap(locks[s]).lock_timeout <= WordMax
       /\ (Invokes("renew", s) /\ ReachesLockCheck(s) /\ LockChecksPass(s)
           /\ Unwrap(subs[s]).failure_count > 0) =>
            \A cooldown_ledgers \in Cooldowns :
              (\E approval_id \in ApprovalIds, amount \in RenewAmounts,
                  max_retries \in RetryLimits, cycle_id \in CycleIds, succeed \in BOOLEAN :
                 /\ cycles[s] # Some(cycle_id)
                 /\ renew(s, approval_id, amount, max_retries, cooldown_ledgers,
                          cycle_id, succeed))
                => Unwrap(subs[s]).last_attempt_ledger + cooldown_ledgers <= WordMax
       /\ last'.res # "attempt to add with overflow"]_vars

====
